---------------------------- MODULE Spec2Model ----------------------------
(***************************************************************************)
(* Model of homework4.py: a Network of Computers, each holding Addresses   *)
(* and Components (CPU, Memory, Disk with partitions), rendered as an      *)
(* ASCII tree, searched by name and deep-copied.                           *)
(*                                                                         *)
(* Python objects live in `heap`: a node's identity is its index, a list   *)
(* of child objects is a sequence of indices.  Strings are sequences of    *)
(* one-character strings, so that prefixes and glyphs can be inspected.    *)
(***************************************************************************)
EXTENDS Integers, Sequences, FiniteSets, TLC

VARIABLES
    heap,       \* the objects constructed so far, each with its attributes
    call,       \* the last call made: method, receiver and arguments
    ret,        \* the value that call returned
    printed,    \* the list a direct print_me call has filled
    out,        \* the string the last str(network) returned
    exc,        \* the exception the last call raised, "none" otherwise
    copies,     \* the pairs (orig, copy) of every x = orig.clone() made
    used        \* how many roots, clones and passed objects the caller has used

vars == <<heap, call, ret, printed, out, exc, copies, used>>

-----------------------------------------------------------------------------
(* Bounds of the model: objects on the heap, length of a child list,
   partitions of a disk, structures started, clones taken, and calls that
   pass an object the caller already holds instead of a new one *)

MaxNodes == 4
MaxChildren == 2
MaxPartitions == 2
MaxRoots == 1
MaxClones == 1
MaxPassed == 1

(* Inputs.  Parts are the partitions added inside a structure, DiskParts the
   ones added to a Disk on its own, where their order and content are read
   back from the rendering. *)

Names == {<<"a">>, <<"b">>}
NetNames == {<<"n">>}
Endpoints == {<<"1", ".", "2">>}
DiskSizes == {16}
Parts == {<<5, <<"s">>>>}
DiskParts == {<<5, <<"s">>>>, <<5, <<"d">>>>, <<15, <<"s">>>>, <<15, <<"d">>>>}
Prefixes == {<<>>, <<"|", " ">>, <<" ", " ">>}
CpuSpecs == {<<4, 2500>>}
MemSizes == {160}

\* None, told apart from every object (objects are numbered from 1)
None == 0

-----------------------------------------------------------------------------
(* Objects *)

SSD == 0
MAGNETIC == 1

Blank ==
    [kind |-> "", name |-> <<>>, computers |-> <<>>, addresses |-> <<>>,
     items |-> <<>>, numeric_val |-> 0, address |-> <<>>, storage_type |-> 0,
     size |-> 0, partitions |-> <<>>, cores |-> 0, mhz |-> 0]

Network(name) == [Blank EXCEPT !.kind = "Network", !.name = name, !.computers = <<>>]

Computer(name) ==
    [Blank EXCEPT !.kind = "Computer", !.items = <<>>, !.numeric_val = 0,
                  !.name = name, !.addresses = <<>>]

Address(addr) == [Blank EXCEPT !.kind = "Address", !.address = addr]

Disk(storage_type, size) ==
    [Blank EXCEPT !.kind = "Disk", !.numeric_val = 0, !.storage_type = storage_type,
                  !.size = size, !.partitions = <<>>]

CPU(cores, mhz) ==
    [Blank EXCEPT !.kind = "CPU", !.numeric_val = 0, !.cores = cores, !.mhz = mhz]

Memory(size) == [Blank EXCEPT !.kind = "Memory", !.numeric_val = 0, !.size = size]

Ids == 1..Len(heap)

OfKind(k) == {i \in Ids : heap[i].kind = k}

\* isinstance(item, Computer)
IsComputer(h, i) == h[i].kind = "Computer"

\* isinstance(item, Component): CPU, Memory, Disk and Computer derive from it
IsComponent(h, i) == h[i].kind \in {"Computer", "Disk", "CPU", "Memory"}

-----------------------------------------------------------------------------
(* The object graph *)

Range(s) == {s[i] : i \in 1..Len(s)}

Children(h, i) == Range(h[i].computers) \cup Range(h[i].addresses) \cup Range(h[i].items)

RECURSIVE ReachFrom(_, _)
ReachFrom(h, S) ==
    LET T == S \cup UNION {Children(h, i) : i \in S}
    IN  IF T = S THEN S ELSE ReachFrom(h, T)

\* every object reachable from i through child lists, i included
Reach(h, i) == ReachFrom(h, {i})

\* the objects below i
Descendants(h, i) == ReachFrom(h, Children(h, i))

-----------------------------------------------------------------------------
(* copy.deepcopy *)

\* copy.copy: a new object for i alone, holding the children of the original
ShallowCopyMemo(h, i) == [j \in Reach(h, i) |-> IF j = i THEN Len(h) + 1 ELSE j]

DeepCopyMemo(h, i) ==
    LET R == Reach(h, i)
    IN  [j \in R |-> Len(h) + Cardinality({k \in R : k <= j})]

\* a copy that carries the computers and the items over and forgets the addresses
RemapWithoutAddresses(node, memo) ==
    [node EXCEPT !.computers = [k \in 1..Len(node.computers) |-> memo[node.computers[k]]],
                 !.addresses = <<>>,
                 !.items = [k \in 1..Len(node.items) |-> memo[node.items[k]]]]

Remap(node, memo) ==
    [node EXCEPT !.computers = [k \in 1..Len(node.computers) |-> memo[node.computers[k]]],
                 !.addresses = [k \in 1..Len(node.addresses) |-> memo[node.addresses[k]]],
                 !.items = [k \in 1..Len(node.items) |-> memo[node.items[k]]]]

\* the copy of every object in the memo is appended to the heap
DeepCopy(h, i) ==
    LET memo == DeepCopyMemo(h, i)
        made == {j \in DOMAIN memo : memo[j] > Len(h)}
        src(m) == CHOOSE j \in made : memo[j] = m
    IN  [heap |-> h \o [k \in 1..Cardinality(made) |-> Remap(h[src(Len(h) + k)], memo)],
         ret |-> memo[i]]

-----------------------------------------------------------------------------
(* Text: a str is a sequence of characters *)

Digit(d) == <<"0", "1", "2", "3", "4", "5", "6", "7", "8", "9">>[d + 1]

\* f"{n}" for an int n >= 0
RECURSIVE Str(_)
Str(n) == IF n < 10 THEN <<Digit(n)>> ELSE Str(n \div 10) \o <<Digit(n % 10)>>

\* sep.join(lines)
RECURSIVE Join(_, _)
Join(sep, lines) ==
    IF lines = <<>> THEN <<>>
    ELSE IF Len(lines) = 1 THEN lines[1]
    ELSE lines[1] \o sep \o Join(sep, Tail(lines))

\* text.splitlines() of a text that does not end in a newline
RECURSIVE Split(_)
Split(text) ==
    IF \A k \in 1..Len(text) : text[k] # "\n" THEN <<text>>
    ELSE LET k == CHOOSE k \in 1..Len(text) :
                      text[k] = "\n" /\ \A j \in 1..(k - 1) : text[j] # "\n"
         IN  <<SubSeq(text, 1, k - 1)>> \o Split(SubSeq(text, k + 1, Len(text)))

\* '\\-' if is_last else '+-'
Branch(is_last) == IF is_last THEN <<"\\", "-">> ELSE <<"+", "-">>

\* prefix + ("| " if not is_last else "  ")
ChildPrefix(prefix, is_last) ==
    prefix \o (IF ~is_last THEN <<"|", " ">> ELSE <<" ", " ">>)

-----------------------------------------------------------------------------
(* print_me: os is the list of lines so far, the result is the list after the
   call, or the exception that ended it *)

\* the interpreter's recursion limit: deeper than any acyclic structure of the model
RecursionLimit == MaxNodes + 1

Ok(os) == [exc |-> "none", os |-> os]

Raise(e, os) == [exc |-> e, os |-> os]

\* an Address that takes its glyph from is_last like every other node
Address_print_me_Branch(node, os, prefix, is_last) ==
    Append(os, prefix \o Branch(is_last) \o node.address)

Address_print_me(node, os, prefix, is_last) ==
    Append(os, prefix \o <<"+", "-">> \o node.address)

CPU_print_me(node, os, prefix, is_last) ==
    Append(os, prefix \o Branch(is_last) \o <<"C", "P", "U", ",", " ">> \o Str(node.cores)
                   \o <<" ", "c", "o", "r", "e", "s", " ", "@", " ">> \o Str(node.mhz)
                   \o <<"M", "H", "z">>)

Memory_print_me(node, os, prefix, is_last) ==
    Append(os, prefix \o Branch(is_last) \o <<"M", "e", "m", "o", "r", "y", ",", " ">>
                   \o Str(node.size) \o <<" ", "M", "i", "B">>)

\* 'SSD' if self.storage_type == Disk.SSD else 'HDD'
DiskType(node) == IF node.storage_type = SSD THEN <<"S", "S", "D">> ELSE <<"H", "D", "D">>

\* i == len(self.partitions): never true of an index, no partition gets the last glyph
PartitionLineNeverLast(node, prefix, i) ==
    prefix \o <<" ", " ">> \o <<"+", "-">> \o <<"[">> \o Str(i - 1) \o <<"]", ":", " ">>
        \o Str(node.partitions[i][1]) \o <<" ", "G", "i", "B", ",", " ">>
        \o node.partitions[i][2]

PartitionLine(node, prefix, i) ==
    LET n == Len(node.partitions)
        part_symbol == IF i = n THEN <<"\\", "-">> ELSE <<"+", "-">>
    IN  prefix \o <<" ", " ">> \o part_symbol \o <<"[">> \o Str(i - 1) \o <<"]", ":", " ">>
            \o Str(node.partitions[i][1]) \o <<" ", "G", "i", "B", ",", " ">>
            \o node.partitions[i][2]

Disk_print_me(node, os, prefix, is_last) ==
    Append(os, prefix \o Branch(is_last) \o DiskType(node) \o <<",", " ">> \o Str(node.size)
                   \o <<" ", "G", "i", "B">>)
        \o [i \in 1..Len(node.partitions) |-> PartitionLine(node, prefix, i)]

\* the calls Computer.print_me makes on its children, in order
Computer_calls(node, prefix, is_last) ==
    [i \in 1..Len(node.addresses) |->
        [node |-> node.addresses[i], prefix |-> ChildPrefix(prefix, is_last),
         is_last |-> (i = Len(node.addresses))]]
    \o
    [i \in 1..Len(node.items) |->
        [node |-> node.items[i], prefix |-> ChildPrefix(prefix, is_last),
         is_last |-> (i = Len(node.items))]]

\* i == len(self.computers): never true of an index, no host is rendered as the last
Network_calls_NeverLast(node, prefix, is_last) ==
    [i \in 1..Len(node.computers) |->
        [node |-> node.computers[i], prefix |-> prefix, is_last |-> FALSE]]

\* the calls Network.print_me makes on its computers, in order
Network_calls(node, prefix, is_last) ==
    [i \in 1..Len(node.computers) |->
        [node |-> node.computers[i], prefix |-> prefix,
         is_last |-> (i = Len(node.computers))]]

RECURSIVE print_me(_, _, _, _, _, _)
RECURSIVE print_all(_, _, _, _)

print_all(h, calls, os, depth) ==
    IF calls = <<>> THEN Ok(os)
    ELSE LET c == Head(calls)
             r == print_me(h, c.node, os, c.prefix, c.is_last, depth)
         IN  IF r.exc # "none" THEN r ELSE print_all(h, Tail(calls), r.os, depth)

Computer_print_me(h, node, os, prefix, is_last, depth) ==
    print_all(h, Computer_calls(node, prefix, is_last),
              Append(os, prefix \o Branch(is_last) \o <<"H", "o", "s", "t", ":", " ">>
                             \o node.name),
              depth + 1)

Network_print_me(h, node, os, prefix, is_last, depth) ==
    print_all(h, Network_calls(node, prefix, is_last),
              Append(os, <<"N", "e", "t", "w", "o", "r", "k", ":", " ">> \o node.name),
              depth + 1)

print_me(h, i, os, prefix, is_last, depth) ==
    IF depth > RecursionLimit THEN Raise("RecursionError", os)
    ELSE CASE h[i].kind = "Network" -> Network_print_me(h, h[i], os, prefix, is_last, depth)
           [] h[i].kind = "Computer" -> Computer_print_me(h, h[i], os, prefix, is_last, depth)
           [] h[i].kind = "Address" -> Ok(Address_print_me(h[i], os, prefix, is_last))
           [] h[i].kind = "Disk" -> Ok(Disk_print_me(h[i], os, prefix, is_last))
           [] h[i].kind = "CPU" -> Ok(CPU_print_me(h[i], os, prefix, is_last))
           [] h[i].kind = "Memory" -> Ok(Memory_print_me(h[i], os, prefix, is_last))

\* a list kept from one call to the next
NewOsKept == IF call.op = "str" /\ exc = "none" THEN Split(out) ELSE <<>>

\* os = []
NewOs == <<>>

\* Network.__str__
Network_str(h, i) ==
    LET r == print_me(h, i, NewOs, <<>>, FALSE, 1)
    IN  IF r.exc # "none" THEN [exc |-> r.exc, text |-> <<>>]
        ELSE [exc |-> "none", text |-> Join(<<"\n">>, r.os)]

-----------------------------------------------------------------------------
(* Lookup *)

\* a scan that does not stop at the first match returns the last one
RECURSIVE Network_find_computer_Last(_, _, _)
Network_find_computer_Last(h, computers, name) ==
    IF computers = <<>> THEN None
    ELSE IF h[computers[Len(computers)]].name = name THEN computers[Len(computers)]
    ELSE Network_find_computer_Last(h, SubSeq(computers, 1, Len(computers) - 1), name)

\* for computer in self.computers: if computer.name == name: return computer
RECURSIVE Network_find_computer(_, _, _)
Network_find_computer(h, computers, name) ==
    IF computers = <<>> THEN None
    ELSE IF h[Head(computers)].name = name THEN Head(computers)
    ELSE Network_find_computer(h, Tail(computers), name)

\* for item in self.items: if isinstance(item, Computer) and item.name == name
RECURSIVE BasicCollection_find(_, _, _)
BasicCollection_find(h, items, name) ==
    IF items = <<>> THEN None
    ELSE IF IsComputer(h, Head(items)) /\ h[Head(items)].name = name THEN Head(items)
    ELSE BasicCollection_find(h, Tail(items), name)

-----------------------------------------------------------------------------
(* State *)

NoCall == [op |-> "init", self |-> None, name |-> <<>>, prefix |-> <<>>, is_last |-> FALSE]

Start(h) ==
    /\ heap = h
    /\ call = NoCall
    /\ ret = None
    /\ printed = <<>>
    /\ out = <<>>
    /\ exc = "none"
    /\ copies = <<>>
    /\ used = [roots |-> 0, clones |-> 0, passed |-> 0]

Init == Start(<<>>)

Returned(op, self, name, r) ==
    /\ call' = [NoCall EXCEPT !.op = op, !.self = self, !.name = name]
    /\ copies' = IF op = "clone" THEN Append(copies, [orig |-> self, copy |-> r]) ELSE copies
    /\ ret' = r
    /\ printed' = <<>>
    /\ out' = <<>>
    /\ exc' = "none"

\* the objects a caller can construct and pass as a component
NewComponents ==
    {Computer(name) : name \in Names}
        \cup {Disk(t, size) : t \in {SSD, MAGNETIC}, size \in DiskSizes}
        \cup {CPU(s[1], s[2]) : s \in CpuSpecs}
        \cup {Memory(size) : size \in MemSizes}

Components(h) == {i \in 1..Len(h) : IsComponent(h, i)}

\* the caller passes an object it constructs for the call
Fresh == Len(heap) < MaxNodes /\ UNCHANGED used

\* the caller passes an object it already holds
Passed == used.passed < MaxPassed /\ used' = [used EXCEPT !.passed = @ + 1]

\* the caller constructs an object of its own: the root of a structure
Root(op, obj, name) ==
    /\ used.roots < MaxRoots
    /\ Len(heap) < MaxNodes
    /\ heap' = Append(heap, obj)
    /\ used' = [used EXCEPT !.roots = @ + 1]
    /\ Returned(op, None, name, Len(heap) + 1)

\* Network(name)
NewNetwork == \E name \in NetNames : Root("Network", Network(name), name)

\* Computer(name)
NewComputer == \E name \in Names : Root("Computer", Computer(name), name)

\* BasicCollection.add: no return statement, the call evaluates to None
BasicCollection_add(h, self, elem) ==
    [heap |-> [h EXCEPT ![self].items = Append(@, elem)], ret |-> None]

add(h, self, elem) ==
    /\ Len(h[self].items) < MaxChildren
    /\ heap' = BasicCollection_add(h, self, elem).heap
    /\ Returned("add", self, <<>>, BasicCollection_add(h, self, elem).ret)

add_component(h, self, comp) ==
    /\ Len(h[self].items) < MaxChildren
    /\ heap' = BasicCollection_add(h, self, comp).heap
    /\ Returned("add_component", self, <<>>, self)

add_address(self, addr) ==
    /\ Len(heap) < MaxNodes
    /\ Len(heap[self].addresses) < MaxChildren
    /\ heap' = [Append(heap, Address(addr)) EXCEPT ![self].addresses = Append(@, Len(heap) + 1)]
    /\ Returned("add_address", self, addr, self)

add_computer(h, self, comp) ==
    /\ Len(h[self].computers) < MaxChildren
    /\ heap' = [h EXCEPT ![self].computers = Append(@, comp)]
    /\ Returned("add_computer", self, <<>>, self)

add_partition(self, size, name) ==
    /\ Len(heap[self].partitions) < MaxPartitions
    /\ heap' = [heap EXCEPT ![self].partitions = Append(@, <<size, name>>)]
    /\ Returned("add_partition", self, name, self)

clone(self) ==
    /\ used.clones < MaxClones
    /\ Len(heap) + Cardinality(Reach(heap, self)) <= MaxNodes
    /\ heap' = DeepCopy(heap, self).heap
    /\ used' = [used EXCEPT !.clones = @ + 1]
    /\ Returned("clone", self, <<>>, DeepCopy(heap, self).ret)

Add ==
    \E c \in OfKind("Computer") :
        \/ \E e \in Components(heap) : Passed /\ add(heap, c, e)
        \/ \E obj \in NewComponents : Fresh /\ add(Append(heap, obj), c, Len(heap) + 1)

AddComponent ==
    \E c \in OfKind("Computer") :
        \/ \E e \in Components(heap) : Passed /\ add_component(heap, c, e)
        \/ \E obj \in NewComponents :
              Fresh /\ add_component(Append(heap, obj), c, Len(heap) + 1)

AddAddress == \E c \in OfKind("Computer") : \E a \in Endpoints : add_address(c, a) /\ UNCHANGED used

AddComputer ==
    \E n \in OfKind("Network") :
        \/ \E c \in OfKind("Computer") : Passed /\ add_computer(heap, n, c)
        \/ \E name \in Names :
              Fresh /\ add_computer(Append(heap, Computer(name)), n, Len(heap) + 1)

AddPartition ==
    \E d \in OfKind("Disk") : \E p \in Parts : add_partition(d, p[1], p[2]) /\ UNCHANGED used

Clone == \E i \in Ids : clone(i)

find_computer(self, name) ==
    /\ UNCHANGED <<heap, used>>
    /\ Returned("find_computer", self, name, Network_find_computer(heap, heap[self].computers, name))

find(self, name) ==
    /\ UNCHANGED <<heap, used>>
    /\ Returned("find", self, name, BasicCollection_find(heap, heap[self].items, name))

\* str(network)
str(self) ==
    /\ UNCHANGED <<heap, copies, used>>
    /\ call' = [NoCall EXCEPT !.op = "str", !.self = self]
    /\ ret' = None
    /\ printed' = <<>>
    /\ out' = Network_str(heap, self).text
    /\ exc' = Network_str(heap, self).exc

FindComputer == \E n \in OfKind("Network") : \E name \in Names : find_computer(n, name)

Find == \E c \in OfKind("Computer") : \E name \in Names : find(c, name)

ToStr == \E n \in OfKind("Network") : str(n)

\* every operation of the classes, on the structures a caller builds from one root
Next ==
    \/ NewNetwork
    \/ NewComputer
    \/ Add
    \/ AddComponent
    \/ AddAddress
    \/ AddComputer
    \/ AddPartition
    \/ Clone
    \/ FindComputer
    \/ Find
    \/ ToStr

Spec == Init /\ [][Next]_vars

\* node.print_me(os, prefix, is_last) on a list the caller has just made
call_print_me(self, prefix, is_last) ==
    /\ UNCHANGED <<heap, copies, used>>
    /\ call' = [NoCall EXCEPT !.op = "print_me", !.self = self, !.prefix = prefix,
                              !.is_last = is_last]
    /\ ret' = None
    /\ printed' = print_me(heap, self, NewOs, prefix, is_last, 1).os
    /\ out' = <<>>
    /\ exc' = print_me(heap, self, NewOs, prefix, is_last, 1).exc

DiskAddPartition ==
    \E d \in OfKind("Disk") : \E p \in DiskParts : add_partition(d, p[1], p[2]) /\ UNCHANGED used

RenderDisk ==
    \E d \in OfKind("Disk") : \E prefix \in Prefixes, is_last \in BOOLEAN :
        call_print_me(d, prefix, is_last)

\* a disk on its own: Disk(storage_type, size), then partitions and printing
InitDisk == \E t \in {SSD, MAGNETIC}, size \in DiskSizes : Start(<<Disk(t, size)>>)

NextDisk == DiskAddPartition \/ RenderDisk

SpecDisk == InitDisk /\ [][NextDisk]_vars

-----------------------------------------------------------------------------
(* Vocabulary of the properties *)

Glyph(is_last) == IF is_last THEN <<"\\", "-">> ELSE <<"+", "-">>

Continuation(is_last) == IF is_last THEN <<" ", " ">> ELSE <<"|", " ">>

\* the decimal numerals of the numbers the inputs use
Decimal(n) ==
    CASE n = 0 -> <<"0">>
      [] n = 1 -> <<"1">>
      [] n = 2 -> <<"2">>
      [] n = 3 -> <<"3">>
      [] n = 5 -> <<"5">>
      [] n = 15 -> <<"1", "5">>
      [] n = 16 -> <<"1", "6">>
      [] OTHER -> <<"?">>

\* i lies on a cycle of child lists
OnCycle(h, i) == i \in Descendants(h, i)

\* no cycle is reachable from i
Acyclic(h, i) == \A j \in Reach(h, i) : ~OnCycle(h, j)

\* the places of child lists that hold the object i
Holders(h, i) ==
    {x \in (1..Len(h)) \X {"computers", "addresses", "items"} \X (1..MaxChildren) :
        LET list == IF x[2] = "computers" THEN h[x[1]].computers
                    ELSE IF x[2] = "addresses" THEN h[x[1]].addresses
                    ELSE h[x[1]].items
        IN  x[3] <= Len(list) /\ list[x[3]] = i}

\* the number of lines an acyclic structure renders to
RECURSIVE LineCount(_, _)
RECURSIVE LineCounts(_, _)
LineCounts(h, list) ==
    IF list = <<>> THEN 0 ELSE LineCount(h, Head(list)) + LineCounts(h, Tail(list))

LineCount(h, i) ==
    CASE h[i].kind = "Network" -> 1 + LineCounts(h, h[i].computers)
      [] h[i].kind = "Computer" -> 1 + Len(h[i].addresses) + LineCounts(h, h[i].items)
      [] h[i].kind = "Disk" -> 1 + Len(h[i].partitions)
      [] OTHER -> 1

\* the structure below i written out as a value, without object identities
RECURSIVE Unfold(_, _, _)
Unfold(h, i, depth) ==
    IF depth > RecursionLimit THEN [kind |-> "..."]
    ELSE [kind |-> h[i].kind, name |-> h[i].name, numeric_val |-> h[i].numeric_val,
          address |-> h[i].address, storage_type |-> h[i].storage_type,
          size |-> h[i].size, partitions |-> h[i].partitions, cores |-> h[i].cores,
          mhz |-> h[i].mhz,
          computers |-> [k \in 1..Len(h[i].computers) |-> Unfold(h, h[i].computers[k], depth + 1)],
          addresses |-> [k \in 1..Len(h[i].addresses) |-> Unfold(h, h[i].addresses[k], depth + 1)],
          items |-> [k \in 1..Len(h[i].items) |-> Unfold(h, h[i].items[k], depth + 1)]]

Mutators == {"add", "add_component", "add_address", "add_computer", "add_partition"}

\* original and copy have no object in common
Apart(h, p) == Reach(h, p.orig) \cap Reach(h, p.copy) = {}

\* the step leaves every object of the structure under i as it was
Untouched(i) ==
    /\ Reach(heap', i) = Reach(heap, i)
    /\ \A j \in Reach(heap, i) : heap'[j] = heap[j]
    /\ print_me(heap', i, <<>>, <<>>, FALSE, 1) = print_me(heap, i, <<>>, <<>>, FALSE, 1)

-----------------------------------------------------------------------------
(* C1: a clone is independent of its original.  x = N.clone() shares no
   object with N; and as long as the two share none, every mutator call on
   an object of one leaves every object of the other, its child lists and
   its rendering unchanged. *)
C1_CloneIndependent ==
    [][\A k \in 1..Len(copies') :
          LET p == copies'[k]
          IN  /\ k > Len(copies) => Apart(heap', p)
              /\ (k <= Len(copies) /\ Apart(heap, p) /\ call'.op \in Mutators)
                    => /\ call'.self \in Reach(heap, p.copy) => Untouched(p.orig)
                       /\ call'.self \in Reach(heap, p.orig) => Untouched(p.copy)]_vars

\* a Computer with a child was cloned and an object below the clone was then mutated
C1_Witness ==
    /\ copies # <<>>
    /\ heap[copies[1].orig].kind = "Computer"
    /\ Apart(heap, copies[1])
    /\ call.op \in Mutators
    /\ call.self \in Descendants(heap, copies[1].copy)
    /\ Unfold(heap, copies[1].orig, 1) # Unfold(heap, copies[1].copy, 1)

(* C2: N.clone() is a new object whose structure equals N at the moment of
   cloning: same kind, name and attributes, the same children in the same
   order at every depth, and therefore the same rendering; N itself is left
   as it was. *)
C2_CloneEqual ==
    [][call'.op = "clone" =>
          /\ ret' \notin Ids
          /\ \A i \in Ids : heap'[i] = heap[i]
          /\ Unfold(heap', ret', 1) = Unfold(heap, call'.self, 1)
          /\ \A prefix \in Prefixes, is_last \in BOOLEAN :
                print_me(heap', ret', <<>>, prefix, is_last, 1)
                    = print_me(heap, call'.self, <<>>, prefix, is_last, 1)]_vars

\* a Computer that holds a Disk with a partition has just been cloned
C2_Witness ==
    /\ call.op = "clone"
    /\ heap[call.self].kind = "Computer"
    /\ Acyclic(heap, call.self)
    /\ \E d \in Children(heap, ret) : heap[d].kind = "Disk" /\ heap[d].partitions # <<>>

(* C3: str(network) of a Network free of cycles is its lines joined by
   newlines with no trailing newline: first 'Network: {name}' with no glyph,
   then the block of every host in insertion order; a host's own line is
   '+-Host: {name}', or '\-Host: {name}' for the last host, and every line
   beneath a host begins with '| ', or with two spaces beneath the last host.
   With no host there is only the first line.  str raises only on a cycle. *)
C3_NetworkRendering ==
    call.op = "str" =>
        LET n == call.self
            hosts == heap[n].computers
            lines == Split(out)
            first(k) == 2 + LineCounts(heap, SubSeq(hosts, 1, k - 1))
        IN  /\ exc = "none" <=> Acyclic(heap, n)
            /\ exc = "none" =>
                  /\ out # <<>> /\ out[Len(out)] # "\n"
                  /\ Len(lines) = 1 + LineCounts(heap, hosts)
                  /\ lines[1] = <<"N", "e", "t", "w", "o", "r", "k", ":", " ">> \o heap[n].name
                  /\ \A k \in 1..Len(hosts) :
                        /\ lines[first(k)] = Glyph(k = Len(hosts))
                                                \o <<"H", "o", "s", "t", ":", " ">>
                                                \o heap[hosts[k]].name
                        /\ \A j \in (first(k) + 1)..(first(k + 1) - 1) :
                              SubSeq(lines[j], 1, 2) = Continuation(k = Len(hosts))

\* a network of two hosts, the first of them with a child, has been rendered
C3_Witness ==
    /\ call.op = "str"
    /\ exc = "none"
    /\ Len(heap[call.self].computers) = 2
    /\ Children(heap, heap[call.self].computers[1]) # {}
    /\ heap[call.self].computers[1] # heap[call.self].computers[2]

(* C4 (as claimed): whatever mutators are called, no object is reachable from
   itself through child lists, no object is held in more than one place of
   the child lists, and rendering never fails. *)
C4_OwnershipIsATree ==
    /\ \A i \in Ids : ~OnCycle(heap, i)
    /\ \A i \in Ids : Cardinality(Holders(heap, i)) <= 1
    /\ exc # "RecursionError"

(* C5: find_computer(name) returns the first Computer of the network, in
   insertion order, whose name equals the argument, and None when there is
   none; find(name) returns the first item that is a Computer of that name,
   passing over the other items, and None when there is none.  Neither
   changes the structure. *)
C5_Lookup ==
    [][/\ call'.op = "find_computer" =>
             LET list == heap[call'.self].computers
                 hits == {k \in 1..Len(list) : heap[list[k]].name = call'.name}
             IN  /\ heap' = heap
                 /\ hits = {} => ret' = None
                 /\ hits # {} => \E k \in hits : ret' = list[k] /\ \A j \in hits : k <= j
       /\ call'.op = "find" =>
             LET list == heap[call'.self].items
                 hits == {k \in 1..Len(list) :
                            heap[list[k]].kind = "Computer" /\ heap[list[k]].name = call'.name}
             IN  /\ heap' = heap
                 /\ hits = {} => ret' = None
                 /\ hits # {} => \E k \in hits : ret' = list[k] /\ \A j \in hits : k <= j]_vars

\* find_computer has returned the first of two different hosts of the same name
C5_Witness ==
    /\ call.op = "find_computer"
    /\ Len(heap[call.self].computers) = 2
    /\ heap[call.self].computers[1] # heap[call.self].computers[2]
    /\ heap[heap[call.self].computers[2]].name = call.name
    /\ ret = heap[call.self].computers[1]

(* C6: Disk.print_me emits '{prefix}{glyph}{SSD|HDD}, {size} GiB' and then one
   line per partition, in the order add_partition appended them, of the form
   '{prefix}  {glyph}[{i}]: {size} GiB, {label}' with i = 0..n, the glyph '\-'
   for the last partition only, indented by the incoming prefix plus two
   spaces whether or not the Disk is the last sibling. *)
C6_DiskRendering ==
    /\ call.op = "add_partition" =>
          /\ heap[call.self].partitions # <<>>
          /\ heap[call.self].partitions[Len(heap[call.self].partitions)][2] = call.name
    /\ call.op = "print_me" =>
          LET d == heap[call.self]
              n == Len(d.partitions)
          IN  /\ exc = "none"
              /\ Len(printed) = 1 + n
              /\ printed[1] = call.prefix \o Glyph(call.is_last)
                                 \o (IF d.storage_type = 0 THEN <<"S", "S", "D">>
                                                           ELSE <<"H", "D", "D">>)
                                 \o <<",", " ">> \o Decimal(d.size) \o <<" ", "G", "i", "B">>
              /\ \A i \in 1..n :
                    printed[1 + i] = call.prefix \o <<" ", " ">> \o Glyph(i = n) \o <<"[">>
                                        \o Decimal(i - 1) \o <<"]", ":", " ">>
                                        \o Decimal(d.partitions[i][1])
                                        \o <<" ", "G", "i", "B", ",", " ">>
                                        \o d.partitions[i][2]

\* a disk with two different partitions was printed as a non-last sibling under a prefix
C6_Witness ==
    /\ call.op = "print_me"
    /\ ~call.is_last
    /\ call.prefix # <<>>
    /\ Len(heap[call.self].partitions) = 2
    /\ heap[call.self].partitions[1] # heap[call.self].partitions[2]
    /\ Len(printed) = 3

(* C7 (as claimed): Computer.print_me calls its addresses, then its components,
   each in insertion order and with the extended prefix, and the is_last flag
   it passes is true for the final child of that combined sequence only. *)
C7_CombinedLastFlag ==
    \A c \in OfKind("Computer"), prefix \in Prefixes, is_last \in BOOLEAN :
        LET calls == Computer_calls(heap[c], prefix, is_last)
        IN  /\ [k \in 1..Len(calls) |-> calls[k].node] = heap[c].addresses \o heap[c].items
            /\ \A k \in 1..Len(calls) :
                  /\ calls[k].prefix = prefix \o Continuation(is_last)
                  /\ calls[k].is_last = (k = Len(calls))

(* C8: an Address renders as the one line '{prefix}+-{endpoint}' whatever
   is_last flag it receives; so a Computer with addresses and no components
   renders no child line that carries the last-child glyph. *)
C8_AddressGlyph ==
    /\ \A a \in OfKind("Address"), prefix \in Prefixes, is_last \in BOOLEAN :
          print_me(heap, a, <<>>, prefix, is_last, 1)
              = [exc |-> "none", os |-> <<prefix \o <<"+", "-">> \o heap[a].address>>]
    /\ \A c \in OfKind("Computer"), prefix \in Prefixes, is_last \in BOOLEAN :
          (heap[c].addresses # <<>> /\ heap[c].items = <<>>) =>
              LET r == print_me(heap, c, <<>>, prefix, is_last, 1)
              IN  /\ r.exc = "none"
                  /\ Len(r.os) = 1 + Len(heap[c].addresses)
                  /\ \A k \in 2..Len(r.os) :
                        /\ SubSeq(r.os[k], Len(prefix) + 3, Len(prefix) + 4) = <<"+", "-">>
                        /\ \A j \in 1..Len(r.os[k]) : r.os[k][j] # "\\"

\* a Computer with addresses and no component
C8_Witness ==
    \E c \in OfKind("Computer") :
        /\ Len(heap[c].addresses) = 2
        /\ heap[c].items = <<>>
        /\ Computer_calls(heap[c], <<>>, TRUE)[2].is_last

(* C9 (as claimed): add(child) appends the child and returns the owning node. *)
C9_AddReturnsOwner ==
    call.op = "add" => heap[call.self].items # <<>> /\ ret = call.self

(* C10: rendering reads and never writes: str(network) leaves every object as
   it was, a second str(network) with no mutator call in between gives the
   output of the first, and the output holds the lines of this call only. *)
C10_RenderingIdempotent ==
    [][call'.op = "str" =>
          /\ heap' = heap
          /\ (call.op = "str" /\ call.self = call'.self) => (out' = out /\ exc' = exc)
          /\ exc' = "none" => Len(Split(out')) = LineCount(heap, call'.self)]_vars

\* a network with a host and a child of it has been rendered
C10_Witness ==
    /\ call.op = "str"
    /\ exc = "none"
    /\ Len(Split(out)) >= 3

=============================================================================
